---- MODULE Spec2Model ----
(***************************************************************************)
(* State-machine model of reftest/db.py: the test-data catalog (one SQLite *)
(* file holding the table test_data), the commands of main() and the       *)
(* library entry point add_test_data().                                    *)
(*                                                                         *)
(* One catalog path (DbPath) and a small file system are modelled: two     *)
(* readable FITS files and bad.fits, whose header cannot be read.  The     *)
(* header of the second readable file is drawn in Init from the headers    *)
(* that differ from the first file's header in at most one keyword.        *)
(***************************************************************************)
EXTENDS Integers, Sequences, FiniteSets, TLC

\* ------------------------------------------------------------------ bounds
\* Largest primary key the model lets the store assign.
MaxId == 3

\* ------------------------------------------------------------ Python values
\* Python's None: what header.get returns for an absent keyword, what
\* load_session returns when no path is resolvable, a NULL column.
None == "None"

\* --------------------------------------------------------------- the schema
\* The metadata columns of TestData, in declaration order.
MetaCols ==
    {"DATE_OBS", "TIME_OBS", "INSTRUME", "READPATT", "EXP_TYPE", "DETECTOR",
     "BAND", "CHANNEL", "FILTER", "PUPIL", "GRATING", "SUBARRAY",
     "SUBSTRT1", "SUBSTRT2", "SUBSIZE1", "SUBSIZE2"}

\* All columns of a row.
Columns == {"id", "filename"} \cup MetaCols

\* The FITS keyword TestData.__init__ reads for each metadata column: the two
\* observation columns are read from hyphenated keywords.
HeaderKey(col) ==
    CASE col = "DATE_OBS" -> "DATE-OBS"
      [] col = "TIME_OBS" -> "TIME-OBS"
      [] OTHER -> col

\* The FITS keywords of interest.
Keywords == {HeaderKey(c) : c \in MetaCols}

\* The keys of the args dictionary data_exists builds.
QueryCols ==
    {"INSTRUME", "DETECTOR", "CHANNEL", "FILTER", "PUPIL", "BAND", "GRATING",
     "EXP_TYPE", "READPATT", "SUBARRAY", "SUBSTRT1", "SUBSTRT2", "SUBSIZE1",
     "SUBSIZE2"}

\* ----------------------------------------------------------- the file system
\* Paths are sequences of components; an absolute path starts with "/".
Cwd == <<"/", "data">>
FileA == <<"/", "data", "a.fits">>
FileB == <<"/", "data", "b.fits">>

\* os.path.abspath: an absolute path is kept, a relative one is joined to the
\* current directory.
abspath(p) == IF p # <<>> /\ Head(p) = "/" THEN p ELSE Cwd \o p

\* The catalog path given on the command line.
DbPath == "/data/test.db"

\* The file patterns of the model.
Patterns == {"a.fits", "/data/b.fits", "*.fits", "/data/[ab].fits", "c*.fits"}

\* glob.glob on the model's file system: the matched names, relative for a
\* relative pattern.
glob(pattern) ==
    CASE pattern = "a.fits" -> << <<"a.fits">> >>
      [] pattern = "/data/b.fits" -> << FileB >>
      [] pattern = "*.fits" -> << <<"a.fits">>, <<"bad.fits">>, <<"b.fits">> >>
      [] pattern = "/data/[ab].fits" -> << FileA, FileB >>
      [] OTHER -> << >>

\* Header values.
Values == {"A", "B"}

\* The header of a.fits: BAND and GRATING are absent.
BaseHeader == [k \in Keywords \ {"BAND", "GRATING"} |-> "A"]

\* Header h with keyword k removed.
Without(h, k) == [x \in DOMAIN h \ {k} |-> h[x]]

\* Header h with keyword k set to v.
With(h, k, v) == [x \in DOMAIN h \cup {k} |-> IF x = k THEN v ELSE h[x]]

\* The headers that differ from BaseHeader in at most one keyword.
Headers ==
    {BaseHeader}
    \cup {Without(BaseHeader, k) : k \in DOMAIN BaseHeader}
    \cup {With(BaseHeader, k, v) : k \in Keywords, v \in Values}

\* Header.get: the keyword's value, None when the keyword is absent.
Get(h, k) == IF k \in DOMAIN h THEN h[k] ELSE None

VARIABLES
    REFTEST_DATA_DB,  \* the environment default, read once at import
    headers,          \* the header of each readable file, by absolute path
    dbfile,           \* what is at DbPath: "absent", "empty" or "catalog"
    records,          \* the rows of test_data
    pc,               \* "idle", "adding" (in the loop of add_test_data), "raised"
    file_path,        \* add_test_data's arguments and locals
    force,
    replace,
    session,
    i,                \* number of matched files whose loop body has completed
    report            \* the last line printed, or the exception raised

vars ==
    <<REFTEST_DATA_DB, headers, dbfile, records, pc, file_path, force, replace,
      session, i, report>>

env == <<REFTEST_DATA_DB, headers>>
locals == <<file_path, force, replace, session, i>>

\* ------------------------------------------------------------- header reader
\* Whether fits.getheader(fname) succeeds: the file exists and has a header.
readable(fname) == abspath(fname) \in DOMAIN headers

\* fits.getheader(fname), for a readable file.
getheader(fname) == headers[abspath(fname)]

\* ------------------------------------------------------------------ TestData
\* TestData with the filename stored as given.
TestData_as_given(fname) ==
    [c \in Columns \ {"id"} |->
        IF c = "filename" THEN fname
        ELSE Get(headers[abspath(fname)], HeaderKey(c))]

\* TestData(fname): the new row before the store assigns its id.  The
\* filename is made absolute; every metadata column is header.get of its
\* keyword.
TestData(fname) ==
    [c \in Columns \ {"id"} |->
        IF c = "filename" THEN abspath(fname)
        ELSE Get(getheader(fname), HeaderKey(c))]

\* The primary keys in use.
Ids(recs) == {r.id : r \in recs}

\* The id SQLite gives the next row of an INTEGER PRIMARY KEY table: one more
\* than the largest id present.
NextId(recs) ==
    IF recs = {} THEN 1
    ELSE (CHOOSE m \in Ids(recs) : \A n \in Ids(recs) : n <= m) + 1

\* session.add(obj) as flushed: the row with its id assigned.
Insert(recs, obj) ==
    recs \cup {[c \in Columns |-> IF c = "id" THEN NextId(recs) ELSE obj[c]]}

\* The replace branch without its session.delete.
add_commit_only(recs, old, obj) ==
    recs \cup {[c \in Columns |->
                  IF c = "id"
                  THEN IF recs = {} THEN 1
                       ELSE (CHOOSE m \in {r.id : r \in recs} :
                                \A n \in {r.id : r \in recs} : n <= m) + 1
                  ELSE obj[c]]}

\* session.delete(old); session.add(obj); session.commit().  The unit of work
\* flushes the INSERT before the DELETE, so the new id is computed with the
\* old row still in the table.
delete_add_commit(recs, old, obj) == Insert(recs, obj) \ {old}

\* --------------------------------------------------------------- data_exists
\* filter_by with a plain SQL comparison, under which NULL equals nothing.
filter_by_equals(recs, args) ==
    {r \in recs : \A c \in DOMAIN args : args[c] # None /\ r[c] = args[c]}

\* Query.filter_by(**args) evaluated on the rows recs: column = value for
\* each key, which SQLAlchemy renders as IS NULL when the value is None.
filter_by(recs, args) ==
    {r \in recs :
        \A c \in DOMAIN args :
            IF args[c] = None THEN r[c] = None
            ELSE r[c] # None /\ r[c] = args[c]}

\* data_exists(fname, session): the lazy query; args holds header.get of the
\* fourteen keys.
data_exists(fname, sess) ==
    [bind |-> sess, args |-> [c \in QueryCols |-> Get(getheader(fname), c)]]

\* The rows a query yields when it is executed on the current table.
all(q) == filter_by(records, q.args)

\* Query.count().
count(q) == Cardinality(all(q))

\* The truth value of a Query object: Query defines neither __bool__ nor
\* __len__, so it is always true.
bool(q) == q = q

\* ---------------------------------------------------------------- load_session
\* load_session(db_path): the session bound to the resolved path (modelled by
\* that path), None when no path is resolvable.  The engine is lazy: nothing
\* is opened.
load_session(db_path) ==
    IF db_path = None
    THEN IF REFTEST_DATA_DB = None THEN None ELSE REFTEST_DATA_DB
    ELSE db_path

\* ------------------------------------------------------- create_test_data_db
\* create_all preceded by a drop of the table.
drop_create_all(recs) == {}

\* Base.metadata.create_all(engine): the table is created only when missing,
\* so the rows of an existing table are kept.
create_all(recs) == recs

\* create_test_data_db(db_path).
create_test_data_db(db_path) ==
    /\ db_path = DbPath
    /\ dbfile' = "catalog"
    /\ records' = create_all(records)
    /\ report' = "CREATED DB"
    /\ UNCHANGED <<env, pc, locals>>

\* os.remove(db_path) and the confirmation, the else branch of main.
remove(db_path) ==
    /\ db_path = DbPath
    /\ IF dbfile = "absent"
       THEN /\ report' = "FileNotFoundError"
            /\ UNCHANGED <<dbfile, records>>
       ELSE /\ dbfile' = "absent"
            /\ records' = {}
            /\ report' = "DELETED DB"
    /\ UNCHANGED <<env, pc, locals>>

\* ---------------------------------------------------------------- add_test_data
\* The call and its first statement, session = load_session(db_path).
add_test_data(pattern, db_path, f, r) ==
    /\ pc = "idle"
    /\ pc' = "adding"
    /\ file_path' = pattern
    /\ force' = f
    /\ replace' = r
    /\ session' = load_session(db_path)
    /\ i' = 0
    /\ report' = IF load_session(db_path) = None
                 THEN "REFTEST_DB is None, please specify a database"
                 ELSE "Connected to DB"
    /\ UNCHANGED <<env, dbfile, records>>

\* An exception leaves the loop.
raise(exc) ==
    /\ pc' = "raised"
    /\ report' = exc
    /\ UNCHANGED <<env, locals>>

\* The if with the count test inverted.
skips_when_absent(q, f, r) == Cardinality(filter_by(records, q.args)) = 0 /\ ~(f \/ r)

\* The if with force left out of the test.
skips_unless_replace(q, f, r) == Cardinality(filter_by(records, q.args)) # 0 /\ ~r

\* The test of the if: a match exists and neither option is set.
skips(q, f, r) == count(q) # 0 /\ ~(f \/ r)

\* The test of the elif.
replaces(q, r) == bool(q) /\ r

\* One iteration of the for loop, for the next matched file.
loop_body ==
    /\ pc = "adding"
    /\ i < Len(glob(file_path))
    /\ LET fname == glob(file_path)[i + 1] IN
       IF ~readable(fname)
       THEN \* fits.getheader raises
            raise("OSError") /\ UNCHANGED <<dbfile, records>>
       ELSE IF session = None
       THEN \* session.query on None
            raise("AttributeError") /\ UNCHANGED <<dbfile, records>>
       ELSE IF dbfile # "catalog"
       THEN \* count() connects, which creates the file, and finds no table
            raise("OperationalError") /\ dbfile' = "empty" /\ UNCHANGED records
       ELSE LET query_result == data_exists(fname, session) IN
            IF skips(query_result, force, replace)
            THEN /\ report' = "There is already test data with the same parameters"
                 /\ i' = i + 1
                 /\ UNCHANGED <<env, dbfile, records, pc, file_path, force, replace, session>>
            ELSE IF replaces(query_result, replace)
            THEN IF all(query_result) = {}
                 THEN \* first() is None and session.delete(None) raises
                      raise("UnmappedInstanceError") /\ UNCHANGED <<dbfile, records>>
                 ELSE \* first(): no ORDER BY, any matching row
                      \E old \in all(query_result) :
                         /\ NextId(records) <= MaxId
                         /\ records' = delete_add_commit(records, old, TestData(fname))
                         /\ report' = "Replaced"
                         /\ i' = i + 1
                         /\ UNCHANGED <<env, dbfile, pc, file_path, force, replace, session>>
            ELSE /\ NextId(records) <= MaxId
                 /\ records' = Insert(records, TestData(fname))
                 /\ report' = "Added"
                 /\ i' = i + 1
                 /\ UNCHANGED <<env, dbfile, pc, file_path, force, replace, session>>

\* The locals are dropped when add_test_data is left.
leave ==
    /\ pc' = "idle"
    /\ file_path' = None
    /\ force' = FALSE
    /\ replace' = FALSE
    /\ session' = None
    /\ i' = 0
    /\ UNCHANGED <<env, dbfile, records, report>>

\* The loop is exhausted and add_test_data returns.
return ==
    /\ pc = "adding"
    /\ i = Len(glob(file_path))
    /\ leave

\* The exception propagates out of add_test_data.
propagate ==
    /\ pc = "raised"
    /\ leave

\* ------------------------------------------------------------------------ main
\* main(): the docopt command selects the call; force and replace are the
\* command words, so at most one of them is set.
main(cmd, pattern) ==
    /\ pc = "idle"
    /\ IF cmd = "create" THEN create_test_data_db(DbPath)
       ELSE IF cmd \in {"add", "force", "replace"}
       THEN add_test_data(pattern, DbPath, cmd = "force", cmd = "replace")
       ELSE remove(DbPath)

Commands == {"create", "remove", "add", "force", "replace"}

\* A direct call of the exported add_test_data, with any arguments.
call_add_test_data ==
    \E pattern \in Patterns, db_path \in {None, DbPath}, f \in BOOLEAN, r \in BOOLEAN :
        add_test_data(pattern, db_path, f, r)

\* A command line.
run_main == \E cmd \in Commands, pattern \in Patterns : main(cmd, pattern)

Init ==
    /\ REFTEST_DATA_DB \in {None, DbPath}
    /\ headers \in {[p \in {FileA, FileB} |-> IF p = FileA THEN BaseHeader ELSE h] :
                        h \in Headers}
    /\ dbfile = "absent"
    /\ records = {}
    /\ pc = "idle"
    /\ file_path = None
    /\ force = FALSE
    /\ replace = FALSE
    /\ session = None
    /\ i = 0
    /\ report = ""

Next ==
    \/ run_main
    \/ call_add_test_data
    \/ loop_body
    \/ return
    \/ propagate

Spec == Init /\ [][Next]_vars

\* ===================================================================== claims
\* The file of the pending iteration (meaningful when InLoop).
fname == glob(file_path)[i + 1]

\* An iteration of the loop is pending.
InLoop == pc = "adding" /\ i < Len(glob(file_path))

\* The pending iteration reaches the decision policy: the header is readable,
\* there is a session and the catalog holds the table.
Decides == InLoop /\ readable(fname) /\ session # None /\ dbfile = "catalog"

\* The stored rows matching the pending file.
Matching == all(data_exists(fname, session))

\* The names a candidate file can be given by.
Candidates == {<<"a.fits">>, <<"b.fits">>, FileA, FileB}

\* Row r agrees with file f on every metadata column in cols.
Agrees(r, f, cols) == \A c \in cols : r[c] = Get(getheader(f), HeaderKey(c))

\* The columns data_exists compares: all metadata but the observation pair.
Compared == MetaCols \ {"DATE_OBS", "TIME_OBS"}

\* No two rows agree on all compared columns.
NoDuplicates ==
    \A r1 \in records, r2 \in records :
        r1 # r2 => \E c \in Compared : r1[c] # r2[c]

\* The number of files of the current call whose header read (data_exists,
\* line 98) was attempted: the completed iterations, and the one that raised.
HeaderReads == i + (IF pc = "raised" THEN 1 ELSE 0)

C2_ForceInsertsAnyReplace ==
    [][(Decides /\ force /\ Matching # {})
        => (Cardinality(records') = Cardinality(records) + 1 /\ records \subseteq records')]_vars

\* C2 (amended): an iteration with force set and replace unset on a file that
\* has a matching row adds exactly one row and removes none.
C2_ForceInserts ==
    [][(Decides /\ force /\ ~replace /\ Matching # {})
        => (/\ Cardinality(records') = Cardinality(records) + 1
            /\ records \subseteq records'
            /\ report' = "Added")]_vars

\* A forced add has just inserted a file that now has two matching rows.
C2_Witness ==
    /\ pc = "adding" /\ force /\ ~replace /\ i >= 1
    /\ report = "Added"
    /\ Cardinality(all(data_exists(glob(file_path)[i], session))) >= 2

\* ------------------------------------------------------------------------- C3
\* C3: an iteration on a file with no matching row inserts it, for every
\* combination of force and replace: one more row, no error, the loop goes on.
C3_NoMatchInserts ==
    [][(Decides /\ Matching = {})
        => (/\ Cardinality(records') = Cardinality(records) + 1
            /\ report' = "Added"
            /\ pc' = "adding")]_vars

\* ------------------------------------------------------------------------- C4
\* C4: when the header of the pending file cannot be read, the loop goes on
\* to the next matched file and the rows committed so far stay.
C4_GlobIsolation ==
    [][(InLoop /\ ~readable(fname))
        => (pc' = "adding" /\ i' = i + 1 /\ records' = records)]_vars

\* ------------------------------------------------------------------------- C5
\* The one matching row, when there is exactly one.
TheMatch == CHOOSE r \in Matching : TRUE

\* The rows matching the pending file after the step.
MatchingAfter == filter_by(records', data_exists(fname, session).args)

C6_PlainAddSkips ==
    [][(Decides /\ ~force /\ ~replace /\ Matching # {})
        => (/\ records' = records
            /\ dbfile' = dbfile
            /\ report' = "There is already test data with the same parameters"
            /\ pc' = "adding"
            /\ i' = i + 1)]_vars

\* A duplicate has just been skipped and a further matched file is pending.
C6_Witness ==
    /\ InLoop /\ ~force /\ ~replace /\ i >= 1
    /\ report = "There is already test data with the same parameters"
    /\ all(data_exists(glob(file_path)[i], session)) # {}

\* ------------------------------------------------------------------------- C7
\* C7: right after remove has deleted the catalog, a call that opens a
\* session gets none.
C7_DeleteThenAbsent ==
    [][(pc = "idle" /\ report = "DELETED DB") => session' = None]_vars

\* ------------------------------------------------------------------------- C8
\* C8: in a call whose load_session yielded no session, no matched file is
\* processed: no header read is attempted.
C8_AbortsAtOpen == (pc # "idle" /\ session = None) => HeaderReads = 0

\* ------------------------------------------------------------------------- C9
\* C9: every create_test_data_db succeeds and leaves the rows as they were,
\* whatever creates and ingestions came before.
C9_IdempotentCreate ==
    [][(pc = "idle" /\ pc' = "idle" /\ dbfile' = "catalog")
        => (records' = records /\ report' = "CREATED DB")]_vars

\* A create has just run on a catalog that holds rows.
C9_Witness == pc = "idle" /\ report = "CREATED DB" /\ records # {}

\* ------------------------------------------------------------------------ C10
\* C10: the catalog starts empty, and no step other than an iteration with
\* force set can make two rows that agree on all compared columns coexist:
\* a catalog without such a pair has none after the step.
C10_UniqueUnlessForced ==
    [][(NoDuplicates /\ ~(pc = "adding" /\ force)) => NoDuplicates']_vars

\* Two rows are stored after an add without force, and they differ on a
\* compared column.
C10_Witness ==
    /\ pc = "adding" /\ ~force /\ report \in {"Added", "Replaced"}
    /\ Cardinality(records) >= 2
    /\ NoDuplicates

====
